---- MODULE Spec2Model ----
(***************************************************************************)
(* cassandra-keyspaces-checker (src/main.go): one run of main().  The run  *)
(* resolves the host name, GETs the jolokia read URL, decodes the JSON     *)
(* document, and ranges over the beans of its value map: each bean is      *)
(* skipped by name, or turned into tags and typed fields, suppressed when  *)
(* only zeros were counted, or printed as one line on standard output.     *)
(*                                                                         *)
(* Strings are TLA+ strings; the Go string functions the program calls     *)
(* (strings.Index, Contains, Replace, Split, Join, fmt's %d, %f, %s) are   *)
(* operators computing what the library computes.                          *)
(***************************************************************************)
EXTENDS Integers, Sequences, FiniteSets, TLC

(***************************************************************************)
(* Bounds of the model.                                                    *)
(***************************************************************************)
\* the largest number of beans in a document's value map
MaxBeans == 2
\* the largest number of attributes of a bean in the single-bean documents
MaxAttrs == 2

(***************************************************************************)
(* Go's strings package.                                                   *)
(***************************************************************************)
RECURSIVE IndexFrom(_, _, _)
IndexFrom(s, sub, i) ==
    IF i + Len(sub) - 1 > Len(s) THEN 0
    ELSE IF SubSeq(s, i, i + Len(sub) - 1) = sub THEN i
    ELSE IndexFrom(s, sub, i + 1)

\* strings.Index, 1-based; 0 where Go returns -1
Index(s, sub) == IndexFrom(s, sub, 1)

\* strings.Contains
Contains(s, sub) == Index(s, sub) # 0

\* s with the occurrence of old at i (none for i = 0) replaced by new
ReplaceAt(s, old, new, i) ==
    IF i = 0 THEN s
    ELSE SubSeq(s, 1, i - 1) \o new \o SubSeq(s, i + Len(old), Len(s))

\* strings.Replace(s, old, new, 1): the first occurrence only
ReplaceFirst(s, old, new) == ReplaceAt(s, old, new, Index(s, old))

\* strings.Split(s, sep) for a non-empty sep: always at least one element;
\* SplitAt is given the first occurrence of sep in s
RECURSIVE SplitAt(_, _, _)
Split(s, sep) == SplitAt(s, sep, Index(s, sep))
SplitAt(s, sep, i) ==
    IF i = 0 THEN <<s>>
    ELSE <<SubSeq(s, 1, i - 1)>> \o Split(SubSeq(s, i + Len(sep), Len(s)), sep)

\* strings.Join
RECURSIVE Join(_, _)
Join(elems, sep) ==
    IF Len(elems) = 0 THEN ""
    ELSE IF Len(elems) = 1 THEN elems[1]
    ELSE elems[1] \o sep \o Join(Tail(elems), sep)

(***************************************************************************)
(* fmt's verbs.                                                            *)
(***************************************************************************)
Digit(d) == SubSeq("0123456789", d + 1, d + 1)

RECURSIVE Digits(_)
Digits(n) == IF n < 10 THEN Digit(n) ELSE Digits(n \div 10) \o Digit(n % 10)

\* %d of an integer
FormatInt(n) == IF n < 0 THEN "-" \o Digits(0 - n) ELSE Digits(n)

\* %f of a float64 holding tenths/10: fixed point, six decimals
FormatFloat(tenths) ==
    LET a == IF tenths < 0 THEN 0 - tenths ELSE tenths IN
    (IF tenths < 0 THEN "-" ELSE "") \o Digits(a \div 10) \o "." \o Digit(a % 10) \o "00000"

\* time.Unix(sec, 0).UnixNano() printed by fmt.Println: sec * 1e9 in decimal
FormatUnixNano(sec) ==
    IF sec = 0 THEN "0" ELSE FormatInt(sec) \o "000000000"

(***************************************************************************)
(* The program's flags and fixed strings.                                  *)
(***************************************************************************)
\* the default of --skip (main.go:28-42)
DefaultSkipMetrics ==
    << "CasCommitLatency", "CasCommitTotalLatency", "CasPrepareLatency",
       "CasPrepareTotalLatency", "CasProposeLatency", "CasProposeTotalLatency",
       "ColUpdateTimeDeltaHistogram", "CompressionMetadataOffHeapMemoryUsed",
       "CompressionRatio", "RowCacheHit", "RowCacheHitOutOfRange", "RowCacheMiss",
       "SpeculativeRetries" >>

\* the prefix main strips from every bean key
MetricsDomain == "org.apache.cassandra.metrics:"

\* --name, and the name os.Hostname returns
CheckName == "cassandra-keyspaces-checker"
HostName == "node1"

\* keys := []string{*checkName, "host=" + hostname}; commonKey := strings.Join(keys, ",")
CommonKey(checkName, hostname) == Join(<<checkName, "host=" \o hostname>>, ",")

(***************************************************************************)
(* JSON values of the response, and what encoding/json makes of them when  *)
(* it decodes into interface{}: every number, integral or not, becomes a   *)
(* float64; an array a []interface{}; an object a map; null the nil value. *)
(***************************************************************************)
JNull == [t |-> "null"]
JNumber(integral, tenths) == [t |-> "number", integral |-> integral, tenths |-> tenths]
JString(s) == [t |-> "string", s |-> s]
JArray == [t |-> "array"]
JBool == [t |-> "bool"]
JObject == [t |-> "object"]

GoNil == [kind |-> "nil"]

DecodeValue(j) ==
    CASE j.t = "null"   -> GoNil
      [] j.t = "number" -> [kind |-> "float64", tenths |-> j.tenths]
      [] j.t = "string" -> [kind |-> "string", s |-> j.s]
      [] j.t = "array"  -> [kind |-> "slice"]
      [] j.t = "bool"   -> [kind |-> "bool"]
      [] j.t = "object" -> [kind |-> "map"]

\* the zero value of jsonResp
EmptyMap == [k \in {} |-> GoNil]
ZeroJsonResp == [Status |-> 0, Error |-> "nil", TimeStamp |-> 0, Value |-> EmptyMap]

\* json.NewDecoder(resp.Body).Decode(jsonResp): an error for a body that is not
\* JSON, and for a non-null "error" member, which cannot be stored in a field of
\* the interface type error
DecodeErr(body) == (~body.wellformed) \/ body.error # JNull

DecodeBody(body) ==
    [Status    |-> body.status,
     Error     |-> "nil",
     TimeStamp |-> body.timestamp,
     Value     |-> [k \in DOMAIN body.value |->
                      [a \in DOMAIN body.value[k] |-> DecodeValue(body.value[k][a])]]]

(***************************************************************************)
(* The transformer: one iteration of main's range over jsonResp.Value.     *)
(***************************************************************************)
\* skipMetric(keyPath): the key contains ",name=<M>," for an entry M of --skip
RECURSIVE skipMetricFrom(_, _, _)
skipMetricFrom(keyPath, metrics, i) ==
    IF i > Len(metrics) THEN FALSE
    ELSE IF Contains(keyPath, ",name=" \o metrics[i] \o ",") THEN TRUE
    ELSE skipMetricFrom(keyPath, metrics, i + 1)

skipMetric(keyPath, metrics) == skipMetricFrom(keyPath, metrics, 1)

\* the tag names of the switch on kv[0]
TagCases == {"keyspace", "name", "scope"}
TagName(k) ==
    CASE k = "keyspace" -> "keyspace="
      [] k = "name"     -> "metric="
      [] k = "scope"    -> "cf="

\* a mutant of AppendTag: the tag is put before the others
PrependTag(tags, tag) == <<tag>> \o tags
\* tags = append(tags, ...)
AppendTag(tags, tag) == Append(tags, tag)

\* the loop over keyParts; kv[1] of a one-element kv is an index out of range,
\* a run-time panic
RECURSIVE TagsFrom(_, _, _)
\* the body of the loop for kv := strings.Split(part, "=")
TagsOfPart(keyParts, i, tags, kv) ==
    IF kv[1] \in TagCases
    THEN IF Len(kv) < 2
         THEN [panicked |-> TRUE, tags |-> tags]
         ELSE TagsFrom(keyParts, i + 1, AppendTag(tags, TagName(kv[1]) \o kv[2]))
    ELSE TagsFrom(keyParts, i + 1, tags)

TagsFrom(keyParts, i, tags) ==
    IF i > Len(keyParts) THEN [panicked |-> FALSE, tags |-> tags]
    ELSE TagsOfPart(keyParts, i, tags, Split(keyParts[i], "="))

Tags(keyPath) == TagsFrom(Split(keyPath, ","), 1, <<>>)

\* the dynamic types of the two numeric cases of the type switch
IntKinds == {"int64", "int32", "int16", "int8", "int",
             "uint64", "uint32", "uint16", "uint8", "uint"}
FloatKinds == {"float32", "float64", "complex64", "complex128"}

\* value == nil, or reflect.TypeOf(value).Kind() == reflect.Slice, or no case
Dropped(v) == v.kind \notin (IntKinds \cup FloatKinds \cup {"string"})

\* the Sprintf of the case taken
Field(valueKey, v) ==
    CASE v.kind \in IntKinds   -> valueKey \o "=" \o FormatInt(v.n) \o "i"
      [] v.kind \in FloatKinds -> valueKey \o "=" \o FormatFloat(v.tenths)
      [] v.kind = "string"     -> valueKey \o "=\"" \o v.s \o "\""

Numeric(v) == v.kind \in (IntKinds \cup FloatKinds)

\* a mutant of IsZero: every numeric value counts as a zero
AlwaysZero(v) == TRUE
\* v == 0 and v == 0.0 on the interface value: equal only to an int 0, a float64 0
IsZero(v) ==
    \/ v.kind = "int" /\ v.n = 0
    \/ v.kind = "float64" /\ v.tenths = 0

\* the range over valueMap, in the order the map iteration takes
RECURSIVE Collect(_, _, _, _)
\* the body of the loop for one valueKey, value
CollectOne(valueKey, v, acc) ==
    IF Dropped(v) THEN acc
    ELSE [values          |-> Append(acc.values, Field(valueKey, v)),
          numericValues   |-> acc.numericValues + (IF Numeric(v) THEN 1 ELSE 0),
          zeroValuesCount |-> acc.zeroValuesCount
                                + (IF Numeric(v) /\ IsZero(v) THEN 1 ELSE 0)]

Collect(valueMap, order, i, acc) ==
    IF i > Len(order) THEN acc
    ELSE Collect(valueMap, order, i + 1, CollectOne(order[i], valueMap[order[i]], acc))

NoValues == [values |-> <<>>, numericValues |-> 0, zeroValuesCount |-> 0]

\* *skipZeros && (zeroValuesCount == numericValues)
SkipZerosCond(flag, zeroValuesCount, numericValues) ==
    flag /\ zeroValuesCount = numericValues

\* the three Prints and the Println
Line(commonKey, tags, values, sec) ==
    commonKey \o "," \o Join(tags, ",") \o " " \o Join(values, ",") \o " "
        \o FormatUnixNano(sec)

\* one iteration: which way it leaves the loop body, and the line it prints
\* the rest of the loop body, given the tags t and the collected values c
Emit(t, c, flag, commonKey, sec) ==
    IF t.panicked THEN [outcome |-> "panic", line |-> ""]
    ELSE IF SkipZerosCond(flag, c.zeroValuesCount, c.numericValues)
         THEN [outcome |-> "skipZeros", line |-> ""]
    ELSE IF Len(c.values) > 0
         THEN [outcome |-> "printed", line |-> Line(commonKey, t.tags, c.values, sec)]
    ELSE [outcome |-> "noValues", line |-> ""]

\* the loop body after keyPath = strings.Replace(keyPath, MetricsDomain, "", 1)
IterationOn(keyPath, valueMap, order, flag, metrics, commonKey, sec) ==
    IF skipMetric(keyPath, metrics) THEN [outcome |-> "skipMetric", line |-> ""]
    ELSE Emit(Tags(keyPath), Collect(valueMap, order, 1, NoValues), flag, commonKey, sec)

Iteration(key, valueMap, order, flag, metrics, commonKey, sec) ==
    IterationOn(ReplaceFirst(key, MetricsDomain, ""), valueMap, order, flag, metrics,
                commonKey, sec)

\* the orders a range over a map with these keys can take
Orders(S) ==
    {o \in [1..Cardinality(S) -> S] : \A i, j \in 1..Cardinality(S) : o[i] = o[j] => i = j}

(***************************************************************************)
(* The responses the agent can give.  A bean key is written from its       *)
(* segments, each the list of its '='-separated parts.                     *)
(***************************************************************************)
RECURSIVE JoinEach(_, _)
JoinEach(segs, sep) ==
    IF Len(segs) = 0 THEN <<>> ELSE <<Join(segs[1], sep)>> \o JoinEach(Tail(segs), sep)

BeanKey(segs) == MetricsDomain \o Join(JoinEach(segs, "="), ",")

SegType == <<"type", "ColumnFamily">>
SegKeyspace == <<"keyspace", "ks1">>
SegScope == <<"scope", "tbl1">>
SegName == <<"name", "ReadLatency">>
SegSkipped == <<"name", "RowCacheHit">>

\* the key of the request pattern (main.go:71): type, keyspace, scope, name
SegsPattern == <<SegType, SegKeyspace, SegScope, SegName>>
\* the canonical (sorted) property order, with a name of the skip list
SegsSkipMiddle == <<SegKeyspace, SegSkipped, SegScope, SegType>>
SegsSkipLast == <<SegType, SegKeyspace, SegScope, SegSkipped>>
SegsSkipFirst == <<SegSkipped, SegKeyspace, SegScope, SegType>>
SegsNoTags == <<SegType>>
SegsNoValue == <<SegType, <<"keyspace">>, SegScope>>
SegsNoValueLast == <<SegKeyspace, SegType, <<"name">>>>
SegsTwoEquals == <<<<"keyspace", "a", "b">>, SegName, SegScope, SegType>>
SegsPrefixOfSkipped == <<SegKeyspace, <<"name", "RowCache">>, SegScope, SegType>>

SmallSegs == {SegsPattern, SegsSkipMiddle, SegsSkipLast, SegsNoTags, SegsNoValue}

\* every order of the four segments of the pattern
SegsPermuted ==
    {[i \in 1..4 |-> SegsPattern[o[i]]] : o \in Orders(1..4)}

WideSegs ==
    SmallSegs \cup SegsPermuted
      \cup {SegsSkipFirst, SegsNoValueLast, SegsTwoEquals, SegsPrefixOfSkipped}

SmallKeys == {BeanKey(segs) : segs \in SmallSegs}
WideKeys == {BeanKey(segs) : segs \in WideSegs}

AttrNames == {"Count", "OneMinuteRate", "Unit"}

JSONValues ==
    {JNull, JNumber(TRUE, 0), JNumber(TRUE, 420), JNumber(FALSE, 0), JNumber(FALSE, 15),
     JString("ms"), JArray, JBool}

Zeros == [Count |-> JNumber(TRUE, 0), OneMinuteRate |-> JNumber(FALSE, 0)]
Mixed == [Count |-> JNumber(TRUE, 420), OneMinuteRate |-> JNumber(FALSE, 0)]
Strings == [Unit |-> JString("ms")]
Nothing == [Extra |-> JNull, Percentiles |-> JArray]

SmallAttrMaps == {Zeros, Mixed, Strings, Nothing}

WideAttrMaps ==
    UNION {[S -> JSONValues] : S \in {T \in SUBSET AttrNames : Cardinality(T) <= MaxAttrs}}

\* value maps: up to MaxBeans beans of the small sets, and single beans that
\* widen either the key or the attribute map
ValueMaps ==
    UNION {[S -> SmallAttrMaps] : S \in {T \in SUBSET SmallKeys : Cardinality(T) <= MaxBeans}}
      \cup UNION {[{k} -> SmallAttrMaps] : k \in WideKeys}
      \cup UNION {[{k} -> WideAttrMaps] : k \in SmallKeys}

Document(status, error, value) ==
    [wellformed |-> TRUE, status |-> status, error |-> error,
     timestamp |-> 1500000000, value |-> value]

Malformed ==
    [wellformed |-> FALSE, status |-> 0, error |-> JNull, timestamp |-> 0, value |-> EmptyMap]

OneBean == [k \in {BeanKey(SegsPattern)} |-> Mixed]

Bodies ==
    {Document(200, JNull, v) : v \in ValueMaps}
      \cup {Malformed, Document(500, JNull, OneBean), Document(200, JString("boom"), OneBean),
            Document(404, JObject, EmptyMap)}

HTTPStatuses == {200, 500}

(***************************************************************************)
(* The state of one run of main.                                           *)
(***************************************************************************)
VARIABLES
    skipZeros,    \* *skipZeros
    skipMetrics,  \* *skipMetrics
    body,         \* what the agent sends as the response body
    pc,           \* where main is
    err,          \* the error of the last call, "nil" for none
    hostname,     \* hostname
    resp,         \* the HTTP response: obtained, StatusCode, Body closed
    jsonResp,     \* the decoded document
    todo,         \* the keys of jsonResp.Value the range has not visited yet
    trail,        \* the iterations done: key, valueMap, outcome, line
    stdout,       \* the lines printed
    exit          \* "running", or how the process ended: "ok" (0), "fatal" (1), "panic" (2)

vars == <<skipZeros, skipMetrics, body, pc, err, hostname, resp, jsonResp, todo, trail,
          stdout, exit>>

NoResp == [obtained |-> FALSE, StatusCode |-> 0, closed |-> FALSE]

ExitCode(e) == CASE e = "ok" -> 0 [] e = "fatal" -> 1 [] e = "panic" -> 2

Init ==
    /\ skipZeros \in BOOLEAN
    /\ skipMetrics = DefaultSkipMetrics
    /\ body \in Bodies
    /\ pc = "log"
    /\ err = "nil"
    /\ hostname = ""
    /\ resp = NoResp
    /\ jsonResp = ZeroJsonResp
    /\ todo = {}
    /\ trail = <<>>
    /\ stdout = <<>>
    /\ exit = "running"

\* log.Fatal: os.Exit(1); deferred calls do not run
Fatal ==
    /\ pc' = "exited"
    /\ exit' = "fatal"

\* log.SetOutput(os.Stderr), or syslog.New, which can fail
SetupLog ==
    /\ pc = "log"
    /\ \E e \in {"nil", "syslog: unix syslog delivery error"} :
         /\ err' = e
         /\ IF e # "nil" THEN Fatal ELSE pc' = "hostname" /\ exit' = exit
    /\ UNCHANGED <<skipZeros, skipMetrics, body, hostname, resp, jsonResp, todo, trail, stdout>>

\* hostname, err := os.Hostname()
Hostname ==
    /\ pc = "hostname"
    /\ \E e \in {"nil", "hostname: error"} :
         /\ err' = e
         /\ IF e # "nil"
            THEN Fatal /\ hostname' = hostname
            ELSE pc' = "url" /\ exit' = exit /\ hostname' = HostName
    /\ UNCHANGED <<skipZeros, skipMetrics, body, resp, jsonResp, todo, trail, stdout>>

\* loc, err := url.Parse(...)
ParseURL ==
    /\ pc = "url"
    /\ \E e \in {"nil", "parse: invalid URL"} :
         /\ err' = e
         /\ IF e # "nil" THEN Fatal ELSE pc' = "get" /\ exit' = exit
    /\ UNCHANGED <<skipZeros, skipMetrics, body, hostname, resp, jsonResp, todo, trail, stdout>>

\* resp, err := client.Get(loc.String()); defer resp.Body.Close(); the status check
Get ==
    /\ pc = "get"
    /\ \E e \in {"nil", "dial tcp: connection refused"}, code \in HTTPStatuses :
         /\ err' = e
         /\ IF e # "nil"
            THEN Fatal /\ resp' = resp
            ELSE /\ resp' = [obtained |-> TRUE, StatusCode |-> code, closed |-> FALSE]
                 /\ IF code # 200 THEN Fatal ELSE pc' = "decode" /\ exit' = exit
    /\ UNCHANGED <<skipZeros, skipMetrics, body, hostname, jsonResp, todo, trail, stdout>>

\* a mutant of DocFailed: the status of the document is not looked at
ErrorOnly(jr) == jr.Error # "nil"
\* jsonResp.Status != 200 || jsonResp.Error != nil
DocFailed(jr) == jr.Status # 200 \/ jr.Error # "nil"

\* json.NewDecoder(resp.Body).Decode(jsonResp), and the check of the document
Decode ==
    /\ pc = "decode"
    /\ IF DecodeErr(body)
       THEN /\ err' = "json: cannot unmarshal"
            /\ Fatal
            /\ UNCHANGED <<jsonResp, todo>>
       ELSE /\ err' = "nil"
            /\ jsonResp' = DecodeBody(body)
            /\ IF DocFailed(jsonResp')
               THEN Fatal /\ todo' = todo
               ELSE pc' = "range" /\ exit' = exit /\ todo' = DOMAIN jsonResp'.Value
    /\ UNCHANGED <<skipZeros, skipMetrics, body, hostname, resp, trail, stdout>>

\* one iteration of the range over jsonResp.Value, on a key and in an attribute
\* order of the map iteration's choosing; a panic runs the deferred Close and
\* ends the process with status 2
RangeBean ==
    /\ pc = "range"
    /\ \E key \in todo :
         \E order \in Orders(DOMAIN jsonResp.Value[key]) :
           \E it \in {Iteration(key, jsonResp.Value[key], order, skipZeros, skipMetrics,
                                 CommonKey(CheckName, hostname), jsonResp.TimeStamp)} :
               /\ todo' = todo \ {key}
               /\ trail' = Append(trail, [key |-> key, outcome |-> it.outcome,
                                          line |-> it.line])
               /\ stdout' = IF it.outcome = "printed" THEN Append(stdout, it.line) ELSE stdout
               /\ IF it.outcome = "panic"
                  THEN /\ resp' = [resp EXCEPT !.closed = TRUE]
                       /\ pc' = "exited"
                       /\ exit' = "panic"
                  ELSE UNCHANGED <<resp, pc, exit>>
    /\ UNCHANGED <<skipZeros, skipMetrics, body, err, hostname, jsonResp>>

\* the end of main: the deferred resp.Body.Close() runs, the process exits 0
Return ==
    /\ pc = "range"
    /\ todo = {}
    /\ resp' = [resp EXCEPT !.closed = TRUE]
    /\ pc' = "exited"
    /\ exit' = "ok"
    /\ UNCHANGED <<skipZeros, skipMetrics, body, err, hostname, jsonResp, todo, trail, stdout>>

Next == SetupLog \/ Hostname \/ ParseURL \/ Get \/ Decode \/ RangeBean \/ Return

Spec == Init /\ [][Next]_vars

(***************************************************************************)
(* What the properties below speak of.                                     *)
(***************************************************************************)
HasPrefix(s, p) == Len(p) <= Len(s) /\ SubSeq(s, 1, Len(p)) = p
HasSuffix(s, p) == Len(p) <= Len(s) /\ SubSeq(s, Len(s) - Len(p) + 1, Len(s)) = p

\* the iterations the range has done
Done == {trail[i] : i \in 1..Len(trail)}

\* the attribute map of a bean as the agent sent it
Sent(key) == body.value[key]

\* the key has a comma-delimited segment name=<M> for an entry M of the skip list
NameSegmentSkipped(key) ==
    \E part \in {Split(ReplaceFirst(key, MetricsDomain, ""), ",")[i] :
                   i \in 1..Len(Split(ReplaceFirst(key, MetricsDomain, ""), ","))} :
      \E m \in 1..Len(skipMetrics) : part = "name=" \o skipMetrics[m]

OnlyZeroNumbers(attrs) ==
    /\ DOMAIN attrs # {}
    /\ \A a \in DOMAIN attrs : attrs[a].t = "number" /\ attrs[a].tenths = 0

NoNumber(attrs) == \A a \in DOMAIN attrs : attrs[a].t # "number"
SomeString(attrs) == \E a \in DOMAIN attrs : attrs[a].t = "string"
SomeNonZeroNumber(attrs) ==
    \E a \in DOMAIN attrs : attrs[a].t = "number" /\ attrs[a].tenths # 0

\* the number of lines the run has printed for a bean
LinesOf(key) == Cardinality({i \in 1..Len(trail) :
                               trail[i].key = key /\ trail[i].outcome = "printed"})

\* the run is over and had accepted the document
RanTheLoop == pc = "exited" /\ exit \in {"ok", "panic"}

\* the tags a key written from segs stands for, in the order of its segments
RECURSIVE TagsInKeyOrder(_)
TagsInKeyOrder(segs) ==
    IF Len(segs) = 0 THEN <<>>
    ELSE (IF Len(segs[1]) >= 2 /\ segs[1][1] \in {"keyspace", "name", "scope"}
          THEN <<(CASE segs[1][1] = "keyspace" -> "keyspace="
                    [] segs[1][1] = "name"     -> "metric="
                    [] segs[1][1] = "scope"    -> "cf=") \o segs[1][2]>>
          ELSE <<>>) \o TagsInKeyOrder(Tail(segs))

\* the value of the first segment of segs called k
RECURSIVE ValueOf(_, _)
ValueOf(segs, k) ==
    IF Len(segs) = 0 THEN ""
    ELSE IF segs[1][1] = k /\ Len(segs[1]) >= 2 THEN segs[1][2]
    ELSE ValueOf(Tail(segs), k)

HoldsAllThree(segs) ==
    \A k \in {"keyspace", "name", "scope"} :
      \E i \in 1..Len(segs) : segs[i][1] = k /\ Len(segs[i]) >= 2

LinePrefix(tags) == CommonKey(CheckName, HostName) \o "," \o Join(tags, ",") \o " "

\* for each way of writing a key: the key, and the start of its line with the
\* tags in the order of the key's segments
KeyOfSegs == [segs \in WideSegs |-> BeanKey(segs)]
PrefixInKeyOrder == [segs \in WideSegs |-> LinePrefix(TagsInKeyOrder(segs))]

(***************************************************************************)
(* C1: a bean whose key has a segment name=<M>, M an entry of the skip     *)
(* list, at any position of the key (first, middle or last), gets no       *)
(* output line.                                                            *)
(***************************************************************************)
C1_SkipListedBeanNeverPrinted ==
    \A it \in Done : NameSegmentSkipped(it.key) => it.outcome # "printed"

(***************************************************************************)
(* C2: of a run that ranged over the document, every bean that is not      *)
(* skip-listed and whose attributes are all zero-valued numbers (at least  *)
(* one) has no output line with skip-zeros set and exactly one without.    *)
(***************************************************************************)
C2_ZeroBeanLines ==
    RanTheLoop =>
      \A key \in DOMAIN jsonResp.Value :
        (~NameSegmentSkipped(key) /\ OnlyZeroNumbers(Sent(key)))
          => LinesOf(key) = (IF skipZeros THEN 0 ELSE 1)

(***************************************************************************)
(* C3: a bean with no numeric attribute and at least one string attribute  *)
(* is never discarded by the zero-suppression rule, skip-zeros set.        *)
(***************************************************************************)
C3_NoNumberNeverSuppressed ==
    \A it \in Done :
      (skipZeros /\ ~NameSegmentSkipped(it.key)
         /\ NoNumber(Sent(it.key)) /\ SomeString(Sent(it.key)))
        => it.outcome # "skipZeros"

(***************************************************************************)
(* C4: a bean with at least one non-zero numeric attribute is never        *)
(* discarded by zero-suppression, with skip-zeros set or not and whatever  *)
(* else its map holds: an iteration that reaches the check prints a line.  *)
(***************************************************************************)
C4_NonZeroNeverSuppressed ==
    \A it \in Done :
      SomeNonZeroNumber(Sent(it.key))
        => /\ it.outcome # "skipZeros"
           /\ it.outcome \in {"skipMetric", "panic", "printed"}

C4_Witness ==
    \E it \in Done :
      /\ skipZeros
      /\ SomeNonZeroNumber(Sent(it.key))
      /\ \E a \in DOMAIN Sent(it.key) : Sent(it.key)[a].t = "number" /\ Sent(it.key)[a].tenths = 0
      /\ it.outcome = "printed"

(***************************************************************************)
(* C5, as claimed: for a key holding keyspace, scope and name segments in  *)
(* whatever order, the line's tags are keyspace=<K>,metric=<N>,cf=<S>.     *)
(***************************************************************************)
C5_TagsInFixedOrder ==
    \A it \in Done : \A segs \in WideSegs :
      (it.key = KeyOfSegs[segs] /\ HoldsAllThree(segs) /\ it.outcome = "printed")
        => HasPrefix(it.line,
                     LinePrefix(<<"keyspace=" \o ValueOf(segs, "keyspace"),
                                  "metric=" \o ValueOf(segs, "name"),
                                  "cf=" \o ValueOf(segs, "scope")>>))

(***************************************************************************)
(* C5, amended: the line's tags are those of the key's keyspace, name and  *)
(* scope segments (keyspace=, metric=, cf=) in the order in which the      *)
(* segments appear in the key; the key                                     *)
(* type=ColumnFamily,keyspace=ks1,scope=tbl1,name=ReadLatency yields       *)
(* keyspace=ks1,cf=tbl1,metric=ReadLatency.                                *)
(***************************************************************************)
C5_TagsInKeyOrder ==
    \A it \in Done :
      /\ \A segs \in WideSegs :
           (it.key = KeyOfSegs[segs] /\ it.outcome = "printed")
             => HasPrefix(it.line, PrefixInKeyOrder[segs])
      /\ (it.key = BeanKey(SegsPattern) /\ it.outcome = "printed")
           => HasPrefix(it.line,
                        LinePrefix(<<"keyspace=ks1", "cf=tbl1", "metric=ReadLatency">>))

C5_Witness ==
    \E it \in Done :
      /\ it.key = "org.apache.cassandra.metrics:type=ColumnFamily,keyspace=ks1,scope=tbl1,name=ReadLatency"
      /\ it.outcome = "printed"
      /\ HasPrefix(it.line, "cassandra-keyspaces-checker,host=node1,keyspace=ks1,cf=tbl1,metric=ReadLatency ")

(***************************************************************************)
(* C6: in a printed line every attribute that is an integer in the JSON    *)
(* response appears as name=<integer>i, every other number in fixed point  *)
(* without the i, every string double-quoted.                              *)
(***************************************************************************)
FieldIn(line, field) == Contains(line, field \o ",") \/ Contains(line, field \o " ")

C6_IntegersCarrySuffix ==
    \A it \in Done :
      it.outcome = "printed" =>
        \A a \in DOMAIN Sent(it.key) :
          LET j == Sent(it.key)[a] IN
          /\ (j.t = "number" /\ j.integral)
               => FieldIn(it.line, a \o "=" \o FormatInt(j.tenths \div 10) \o "i")
          /\ (j.t = "number" /\ ~j.integral)
               => FieldIn(it.line, a \o "=" \o FormatFloat(j.tenths))
          /\ j.t = "string" => FieldIn(it.line, a \o "=\"" \o j.s \o "\"")

(***************************************************************************)
(* C7: a run that hits a fatal condition (an error of syslog, os.Hostname, *)
(* url.Parse or the GET, an HTTP status other than 200, a body that does   *)
(* not decode, a document status other than 200 or a non-null error) has   *)
(* ended with a non-zero status and has printed nothing.                   *)
(***************************************************************************)
HitFatalCondition ==
    \/ err # "nil"
    \/ resp.obtained /\ resp.StatusCode # 200
    \/ /\ resp.obtained
       /\ pc # "decode"
       /\ (~body.wellformed \/ body.status # 200 \/ body.error # JNull)

C7_FatalBeforeAnyOutput ==
    /\ HitFatalCondition => (pc = "exited" /\ exit = "fatal" /\ ExitCode(exit) # 0 /\ stdout = <<>>)
    /\ exit = "fatal" => stdout = <<>>

C7_Witness ==
    /\ pc = "exited"
    /\ exit = "fatal"
    /\ resp.obtained
    /\ body.wellformed
    /\ body.status = 500
    /\ DOMAIN body.value # {}
    /\ stdout = <<>>

(***************************************************************************)
(* C8: every printed line is <commonKey>,<tags> <fields> <timestamp> with  *)
(* one space before the fields and one before the timestamp, and neither   *)
(* comma-separated list ends in a comma.                                   *)
(***************************************************************************)
C8_LineForm ==
    \A n \in 1..Len(stdout) :
      LET section == Split(stdout[n], " ") IN
      /\ Len(section) = 3
      /\ HasPrefix(section[1], CommonKey(CheckName, HostName))
      /\ ~HasSuffix(section[1], ",")
      /\ section[2] # ""
      /\ ~HasSuffix(section[2], ",")
      /\ section[3] = FormatUnixNano(body.timestamp)

(***************************************************************************)
(* C9: whenever the process has ended after the response was obtained,     *)
(* the response body has been closed.                                      *)
(***************************************************************************)
C9_BodyClosedOnEveryExit ==
    (pc = "exited" /\ resp.obtained) => resp.closed

(***************************************************************************)
(* C10: once the document is decoded with status 200 and no error, the     *)
(* run visits every bean and exits 0.                                      *)
(***************************************************************************)
C10_TransformerCannotFail ==
    (pc = "exited" /\ exit # "fatal")
      => /\ exit = "ok"
         /\ {it.key : it \in Done} = DOMAIN jsonResp.Value

====
